---------------------------- MODULE Spec2Model ----------------------------
(***************************************************************************)
(* Model of the track-change extraction engine of script-sync              *)
(* (DocxParser), in its two versions:                                      *)
(*   "xml2js" : src/src/services/docxParser.ts (xml2js tree builder)       *)
(*   "dom"    : src/unnamed/part_001           (DOMParser tree builder)    *)
(*                                                                         *)
(* Strings are sequences of one-character strings, so that trimming,       *)
(* concatenation, substring tests and pattern matching are computed as the *)
(* code computes them.                                                     *)
(***************************************************************************)
EXTENDS Integers, Sequences, FiniteSets, TLC

---------------------------------------------------------------------------
(* Strings                                                                 *)

\* Characters matched by \s in the regular expressions and removed by trim().
IsWs(c) == c \in {" ", "\t", "\n", "\r"}

\* Characters the regular-expression dot does not match.
IsLineEnd(c) == c \in {"\n", "\r"}

\* Number of leading whitespace characters of s.
RECURSIVE LeadWs(_)
LeadWs(s) ==
    IF s = <<>> \/ ~IsWs(Head(s)) THEN 0 ELSE 1 + LeadWs(Tail(s))

\* Number of trailing whitespace characters of s.
RECURSIVE TrailWs(_)
TrailWs(s) ==
    IF s = <<>> \/ ~IsWs(s[Len(s)]) THEN 0
    ELSE 1 + TrailWs(SubSeq(s, 1, Len(s) - 1))

\* String.prototype.trim
Trim(s) ==
    IF LeadWs(s) = Len(s) THEN <<>>
    ELSE SubSeq(s, 1 + LeadWs(s), Len(s) - TrailWs(s))

\* s has t at (1-based) position i.
StartsAt(s, t, i) ==
    /\ i >= 1
    /\ i + Len(t) - 1 <= Len(s)
    /\ \A k \in 1..Len(t) : s[i + k - 1] = t[k]

\* String.prototype.includes
Includes(s, t) == \E i \in 1..(Len(s) + 1) : StartsAt(s, t, i)

\* Concatenation of a sequence of strings.
RECURSIVE Concat(_)
Concat(ss) == IF ss = <<>> THEN <<>> ELSE Head(ss) \o Concat(Tail(ss))

\* replace(/\s+/g, ' '): every maximal run of whitespace becomes one space.
RECURSIVE CollapseWs(_)
CollapseWs(s) ==
    IF s = <<>> THEN <<>>
    ELSE IF IsWs(Head(s))
         THEN <<" ">> \o CollapseWs(SubSeq(s, 1 + LeadWs(s), Len(s)))
         ELSE <<Head(s)>> \o CollapseWs(Tail(s))

\* replace(/\s{2,}/g, ' '): every maximal run of two or more whitespace
\* characters becomes one space (xml2js option normalize).
RECURSIVE CollapseWs2(_)
CollapseWs2(s) ==
    IF s = <<>> THEN <<>>
    ELSE IF LeadWs(s) >= 2
         THEN <<" ">> \o CollapseWs2(SubSeq(s, 1 + LeadWs(s), Len(s)))
         ELSE <<Head(s)>> \o CollapseWs2(Tail(s))

\* Position of the first ">" of s, 0 when there is none.
RECURSIVE FirstGt(_)
FirstGt(s) ==
    IF s = <<>> THEN 0
    ELSE IF Head(s) = ">" THEN 1
    ELSE LET r == FirstGt(Tail(s)) IN IF r = 0 THEN 0 ELSE r + 1

\* replace(/<[^>]*>/g, ' '): every tag "<...>" becomes one space; a "<" with
\* no ">" after it stays.
RECURSIVE StripTags(_)
StripTags(s) ==
    IF s = <<>> THEN <<>>
    ELSE IF Head(s) = "<" /\ FirstGt(s) > 0
         THEN <<" ">> \o StripTags(SubSeq(s, FirstGt(s) + 1, Len(s)))
         ELSE <<Head(s)>> \o StripTags(Tail(s))

\* htmlContent.replace(/<[^>]*>/g, ' ').replace(/\s+/g, ' ').trim()
HtmlToText(html) == Trim(CollapseWs(StripTags(html)))

\* String.prototype.toLowerCase on the letters tag names use.
LowerChar(c) ==
    CASE c = "T" -> "t"
      [] c = "H" -> "h"
      [] c = "D" -> "d"
      [] OTHER -> c

Lower(s) == [i \in 1..Len(s) |-> LowerChar(s[i])]

\* JavaScript truthiness of a string.
Truthy(s) == s # <<>>

---------------------------------------------------------------------------
(* XML documents: an element is [tag, attrs, kids], a text node is [text]. *)
(* Tags and attribute names are qualified names ("w:ins").                 *)

Elem(tag, attrs, kids) == [tag |-> tag, attrs |-> attrs, kids |-> kids]
Txt(s) == [text |-> s]
Attr(name, value) == [name |-> name, value |-> value]
IsElem(n) == "tag" \in DOMAIN n

\* Position of the first ":" of a qualified name, 0 when there is none.
RECURSIVE ColonAt(_)
ColonAt(q) ==
    IF q = <<>> THEN 0
    ELSE IF Head(q) = ":" THEN 1
    ELSE LET r == ColonAt(Tail(q)) IN IF r = 0 THEN 0 ELSE r + 1

\* Element.localName: the qualified name without its namespace prefix.
LocalName(q) ==
    IF ColonAt(q) = 0 THEN q ELSE SubSeq(q, ColonAt(q) + 1, Len(q))

\* The node at a path (a sequence of child positions) below n.
RECURSIVE NodeAt(_, _)
NodeAt(n, path) ==
    IF path = <<>> THEN n ELSE NodeAt(n.kids[Head(path)], Tail(path))

\* Paths of the element descendants of n (n itself excluded), in document
\* (pre-)order, each prefixed by base.
RECURSIVE DescPaths(_, _)
RECURSIVE KidPaths(_, _, _)
KidPaths(n, base, i) ==
    IF i > Len(n.kids) THEN <<>>
    ELSE (IF IsElem(n.kids[i])
          THEN <<Append(base, i)>> \o DescPaths(n.kids[i], Append(base, i))
          ELSE <<>>)
         \o KidPaths(n, base, i + 1)
DescPaths(n, base) == KidPaths(n, base, 1)

\* Paths of all elements of the document with root n, root included.
AllPaths(n) == <<(<<>>)>> \o DescPaths(n, <<>>)

\* Node.textContent: the text of all text-node descendants, in order.
RECURSIVE TextContent(_)
TextContent(n) ==
    IF ~IsElem(n) THEN n.text
    ELSE Concat([i \in 1..Len(n.kids) |-> TextContent(n.kids[i])])

\* The paths of ps whose element has a local name in locals: a selector list
\* of type selectors ('ins, w\\:ins') matches on the local name, in any
\* namespace. The escaped form 'w\\:ins' names the local name "w:ins", which
\* no element of a namespace-well-formed document has.
RECURSIVE SelectPaths(_, _, _)
SelectPaths(root, ps, locals) ==
    IF ps = <<>> THEN <<>>
    ELSE (IF LocalName(NodeAt(root, Head(ps)).tag) \in locals
          THEN <<Head(ps)>> ELSE <<>>)
         \o SelectPaths(root, Tail(ps), locals)

\* Document.querySelectorAll: all elements, the root included, in document
\* order.
QuerySelectorAll(root, locals) == SelectPaths(root, AllPaths(root), locals)

\* Element.querySelectorAll: the descendants of the element at path.
ElemQuerySelectorAll(root, path, locals) ==
    SelectPaths(root, DescPaths(NodeAt(root, path), path), locals)

\* The absent value (null / undefined).
Null == <<"null">>

\* Element.getAttribute by qualified name: the value, or Null.
RECURSIVE AttrLookup(_, _)
AttrLookup(attrs, name) ==
    IF attrs = <<>> THEN Null
    ELSE IF Head(attrs).name = name THEN Head(attrs).value
    ELSE AttrLookup(Tail(attrs), name)

GetAttribute(el, name) == AttrLookup(el.attrs, name)

\* a || b on attribute values: Null and '' are falsy.
OrElse(a, b) == IF a = Null \/ a = <<>> THEN b ELSE a

---------------------------------------------------------------------------
(* JavaScript values built by xml2js: strings, objects (ordered key/value  *)
(* lists), arrays and null. The field at is the path of the XML element a  *)
(* value was built from; the program does not see it.                      *)

JStr(s, at) == [k |-> "str", s |-> s, props |-> <<>>, items |-> <<>>, at |-> at]
JObj(props, at) ==
    [k |-> "obj", s |-> <<>>, props |-> props, items |-> <<>>, at |-> at]
JArr(items) ==
    [k |-> "arr", s |-> <<>>, props |-> <<>>, items |-> items, at |-> <<>>]
JNull == [k |-> "null", s |-> <<>>, props |-> <<>>, items |-> <<>>, at |-> <<>>]
Prop(key, val) == [key |-> key, val |-> val]

JsTruthy(v) == v.k \in {"obj", "arr"} \/ (v.k = "str" /\ v.s # <<>>)

\* Index of key among props, 0 when absent.
RECURSIVE KeyIndex(_, _)
KeyIndex(props, key) ==
    IF props = <<>> THEN 0
    ELSE IF props[Len(props)].key = key THEN Len(props)
    ELSE KeyIndex(SubSeq(props, 1, Len(props) - 1), key)

\* obj[key] of an object; undefined (JNull) for other values and absent keys.
GetProp(v, key) ==
    IF v.k = "obj" /\ KeyIndex(v.props, key) > 0
    THEN v.props[KeyIndex(v.props, key)].val
    ELSE JNull

\* Object.values: property values in insertion order; array items.
ObjectValues(v) ==
    IF v.k = "obj" THEN [i \in 1..Len(v.props) |-> v.props[i].val]
    ELSE IF v.k = "arr" THEN v.items
    ELSE <<>>

\* xml2js assignOrPush with explicitArray: false: a first value is stored as
\* is, a second one turns the entry into an array.
AssignOrPush(props, key, val) ==
    LET i == KeyIndex(props, key) IN
    IF i = 0 THEN Append(props, Prop(key, val))
    ELSE IF props[i].val.k = "arr"
         THEN [props EXCEPT ![i].val = JArr(Append(props[i].val.items, val))]
         ELSE [props EXCEPT ![i].val = JArr(<<props[i].val, val>>)]

\* The text of the direct text-node children of n (sax text events).
DirectText(n) ==
    Concat([i \in 1..Len(n.kids) |->
              IF IsElem(n.kids[i]) THEN <<>> ELSE n.kids[i].text])

CharKey == <<"_">>

\* mergeAttrs: true: attributes become properties of the element's object.
RECURSIVE MergeAttrs(_, _, _)
MergeAttrs(props, attrs, at) ==
    IF attrs = <<>> THEN props
    ELSE MergeAttrs(AssignOrPush(props, Head(attrs).name,
                                 JStr(Head(attrs).value, at)),
                    Tail(attrs), at)

\* The value xml2js builds for element n (openTag .. closeTag), under
\* explicitArray: false, mergeAttrs: true, normalize: true,
\* normalizeTags: true.
RECURSIVE Xml2jsElement(_, _)
RECURSIVE MergeKids(_, _, _, _)
MergeKids(props, n, at, i) ==
    IF i > Len(n.kids) THEN props
    ELSE IF IsElem(n.kids[i])
         THEN MergeKids(AssignOrPush(props, Lower(n.kids[i].tag),
                                     Xml2jsElement(n.kids[i], Append(at, i))),
                        n, at, i + 1)
         ELSE MergeKids(props, n, at, i + 1)
Xml2jsElement(n, at) ==
    LET text     == DirectText(n)
        blank    == Trim(text) = <<>>
        opened   == MergeAttrs(<<Prop(CharKey, JStr(<<>>, at))>>, n.attrs, at)
        filled   == MergeKids(opened, n, at, 1)
        ci       == KeyIndex(filled, CharKey)
        norm     == Trim(CollapseWs2(text))
        withText == IF blank
                    THEN SubSeq(filled, 1, ci - 1)
                         \o SubSeq(filled, ci + 1, Len(filled))
                    ELSE [filled EXCEPT ![ci].val = JStr(norm, at)]
    IN  IF withText = <<>> THEN JStr(text, at)
        ELSE IF ~blank /\ Len(withText) = 1 THEN JStr(norm, at)
        ELSE JObj(withText, at)

---------------------------------------------------------------------------
(* Names and sample content of the markup the parser looks for.            *)

TagDocument == <<"w", ":", "d", "o", "c", "u", "m", "e", "n", "t">>
TagBody     == <<"w", ":", "b", "o", "d", "y">>
TagIns      == <<"w", ":", "i", "n", "s">>
TagDel      == <<"w", ":", "d", "e", "l">>
TagR        == <<"w", ":", "r">>
TagT        == <<"w", ":", "t">>
TagDelText  == <<"w", ":", "d", "e", "l", "T", "e", "x", "t">>
TagComments == <<"w", ":", "c", "o", "m", "m", "e", "n", "t", "s">>
TagComment  == <<"w", ":", "c", "o", "m", "m", "e", "n", "t">>
TagPkg      == <<"p", "k", "g">>
AttrAuthor  == <<"w", ":", "a", "u", "t", "h", "o", "r">>
AttrDate    == <<"w", ":", "d", "a", "t", "e">>
PlainAuthor == <<"a", "u", "t", "h", "o", "r">>
PlainDate   == <<"d", "a", "t", "e">>
AttrKey     == <<"$">>
Unknown     == <<"U", "n", "k", "n", "o", "w", "n">>
DocumentAuthor ==
    <<"D", "o", "c", "u", "m", "e", "n", "t", " ", "A", "u", "t", "h", "o", "r">>

\* A run carrying text t, and a run carrying deleted text t.
Run(t)    == Elem(TagR, <<>>, <<Elem(TagT, <<>>, <<Txt(t)>>)>>)
DelRun(t) == Elem(TagR, <<>>, <<Elem(TagDelText, <<>>, <<Txt(t)>>)>>)

Year2024 == <<"2", "0", "2", "4">>

\* <w:ins w:author="A" w:date="2024"><w:r><w:t>a</w:t></w:r></w:ins>
InsA == Elem(TagIns, <<Attr(AttrAuthor, <<"A">>), Attr(AttrDate, Year2024)>>,
             <<Run(<<"a">>)>>)
\* <w:ins><w:r><w:t>b</w:t></w:r></w:ins>
InsPlain == Elem(TagIns, <<>>, <<Run(<<"b">>)>>)
\* <w:del w:author="B"><w:r><w:delText>c</w:delText></w:r></w:del>
DelB == Elem(TagDel, <<Attr(AttrAuthor, <<"B">>)>>, <<DelRun(<<"c">>)>>)
\* <w:ins w:author="A"><w:r><w:t> </w:t></w:r></w:ins>
InsWs == Elem(TagIns, <<Attr(AttrAuthor, <<"A">>)>>, <<Run(<<" ">>)>>)
\* <w:del/>
DelEmpty == Elem(TagDel, <<>>, <<>>)
\* <w:ins><w:r><w:t>a</w:t></w:r><w:ins><w:r><w:t>b</w:t></w:r></w:ins></w:ins>
InsNested == Elem(TagIns, <<>>, <<Run(<<"a">>), InsPlain>>)
\* <w:ins w:date="x"><w:r><w:t>d</w:t></w:r></w:ins>
InsBadDate == Elem(TagIns, <<Attr(AttrDate, <<"x">>)>>, <<Run(<<"d">>)>>)
\* <w:r><w:t>x</w:t></w:r>
PlainRun == Run(<<"x">>)

\* The bodies the model draws word/document.xml from.
Bodies ==
    { <<>>, <<PlainRun>>, <<InsA>>, <<InsPlain, DelB>>, <<DelB, InsA>>,
      <<InsWs, DelEmpty>>, <<InsNested, InsA>>, <<InsWs, InsPlain>>,
      <<InsBadDate>> }

\* <w:document><w:body>...</w:body></w:document>
Document(body) == Elem(TagDocument, <<>>, <<Elem(TagBody, <<>>, body)>>)
\* The same below another root element.
Wrapped(body) == Elem(TagPkg, <<>>, <<Document(body)>>)

---------------------------------------------------------------------------
(* Changes. An id `${prefix}-${a}-${b}` is the tuple <<prefix, a, b>>, an  *)
(* id `${prefix}-${index}` the tuple <<prefix, index>>: the numbers hold   *)
(* no "-" ahead of the last part, so two ids are the same string exactly   *)
(* when they are the same tuple. An absent optional field is Null. The     *)
(* field node is the path of the source element (for a fallback change,    *)
(* <<match number>>); the program does not hold it.                        *)

ClockTime(t)   == [k |-> "clock", ms |-> t, iso |-> <<>>]
DateTime(iso)  == [k |-> "date", ms |-> 0, iso |-> iso]
InvalidDate    == [k |-> "invalid", ms |-> 0, iso |-> <<>>]

Digits == {"0", "1", "2", "3", "4", "5", "6", "7", "8", "9"}

\* new Date(str) on the date strings of the model: a four-digit year is a
\* valid date-time form, anything else here is not and gives Invalid Date.
ParseDate(str) ==
    IF Len(str) = 4 /\ \A i \in 1..4 : str[i] \in Digits
    THEN DateTime(str) ELSE InvalidDate

\* What a traversal callback has decided before it reads the clock: the
\* change without the clock-dependent parts. index is the forEach index;
\* date is the date attribute the callback found truthy, or Null.
Proto(prefix, index, type, text, orig, author, date, start, end, comment, node) ==
    [prefix |-> prefix, index |-> index, type |-> type, text |-> text,
     originalText |-> orig, author |-> author, date |-> date,
     start |-> start, end |-> end, comment |-> comment, node |-> node]

\* dateStr ? new Date(dateStr) : new Date()
Timestamp(date, t) == IF date = Null THEN ClockTime(t) ELSE ParseDate(date)

NewChange(id, p, t) ==
    [id |-> id, type |-> p.type, text |-> p.text,
     originalText |-> p.originalText, author |-> p.author,
     timestamp |-> Timestamp(p.date, t),
     location |-> [start |-> p.start, end |-> p.end],
     comment |-> p.comment, suggestions |-> Null, resolved |-> Null,
     node |-> p.node]

---------------------------------------------------------------------------
(* Version "xml2js": src/src/services/docxParser.ts                        *)

\* parseXMLPromise on well-formed XML with root element root:
\* explicitRoot: false resolves with the root element's own value.
ParseXml1(root) == Xml2jsElement(root, <<>>)

\* extractTextRecursive
RECURSIVE ExtractTextRecursive1(_)
ExtractTextRecursive1(obj) ==
    IF obj.k = "str" THEN obj.s
    ELSE IF obj.k \in {"obj", "arr"}
    THEN LET wt == GetProp(obj, TagT) IN
         IF JsTruthy(wt)
         THEN LET textNodes == IF wt.k = "arr" THEN wt.items ELSE <<wt>> IN
              Concat([i \in 1..Len(textNodes) |->
                        IF textNodes[i].k = "str" THEN textNodes[i].s
                        ELSE IF JsTruthy(GetProp(textNodes[i], CharKey))
                        THEN GetProp(textNodes[i], CharKey).s
                        ELSE <<>>])
         ELSE LET vals == ObjectValues(obj) IN
              Concat([i \in 1..Len(vals) |-> ExtractTextRecursive1(vals[i])])
    ELSE <<>>

ExtractTextFromElement1(element) ==
    IF ~JsTruthy(element) THEN <<>> ELSE Trim(ExtractTextRecursive1(element))

\* findElementsRecursive: the elements the callback is called with, in call
\* order.
RECURSIVE FindElementsRecursive(_, _)
FindElementsRecursive(obj, tagName) ==
    IF obj.k \notin {"obj", "arr"} THEN <<>>
    ELSE LET hit  == GetProp(obj, tagName)
             here == IF ~JsTruthy(hit) THEN <<>>
                     ELSE IF hit.k = "arr" THEN hit.items ELSE <<hit>>
             vals == ObjectValues(obj)
         IN  here \o Concat([i \in 1..Len(vals) |->
                               FindElementsRecursive(vals[i], tagName)])

\* element.$?.['w:author'] || 'Unknown'
AuthorOf1(element) ==
    LET a == GetProp(GetProp(element, AttrKey), AttrAuthor) IN
    IF JsTruthy(a) THEN a.s ELSE Unknown

\* element.$?.['w:date'], Null when falsy
DateOf1(element) ==
    LET d == GetProp(GetProp(element, AttrKey), AttrDate) IN
    IF JsTruthy(d) THEN d.s ELSE Null

\* The guard of every push: if (text)
Emits1(text) == Truthy(text)

InsProto1(element) ==
    LET text == ExtractTextFromElement1(element) IN
    Proto("ins", 0, "added", text, Null, AuthorOf1(element), DateOf1(element),
          0, Len(text), Null, element.at)

DelProto1(element) ==
    LET text == ExtractTextFromElement1(element) IN
    Proto("del", 0, "deleted", <<>>, text, AuthorOf1(element),
          DateOf1(element), 0, Len(text), Null, element.at)

CommentProto1(element) ==
    LET text == ExtractTextFromElement1(element) IN
    Proto("comment", 0, "comment", text, Null, AuthorOf1(element),
          DateOf1(element), 0, 0, text, element.at)

\* The callbacks of one forEach that pass the guard, as protos.
RECURSIVE Pushes1(_, _)
Pushes1(elements, kind) ==
    IF elements = <<>> THEN <<>>
    ELSE (IF Emits1(ExtractTextFromElement1(Head(elements)))
          THEN <<CASE kind = "ins" -> InsProto1(Head(elements))
                   [] kind = "del" -> DelProto1(Head(elements))
                   [] OTHER        -> CommentProto1(Head(elements))>>
          ELSE <<>>)
         \o Pushes1(Tail(elements), kind)

\* extractChangesFromXML: the pushes of a run no callback of which raises.
ExtractChangesFromXML1(xmlObj) ==
    LET document == GetProp(xmlObj, TagDocument) IN
    IF ~JsTruthy(document) THEN <<>>
    ELSE Pushes1(FindElementsRecursive(document, TagIns), "ins")
         \o Pushes1(FindElementsRecursive(document, TagDel), "del")

\* extractCommentsFromXML
ExtractCommentsFromXML1(xmlObj) ==
    LET comments == GetProp(GetProp(xmlObj, TagComments), TagComment) IN
    IF ~JsTruthy(comments) THEN <<>>
    ELSE Pushes1(IF comments.k = "arr" THEN comments.items ELSE <<comments>>,
                 "comment")

---------------------------------------------------------------------------
(* Version "dom": src/unnamed/part_001                                     *)

LocalIns     == <<"i", "n", "s">>
LocalDel     == <<"d", "e", "l">>
LocalT       == <<"t">>
LocalDelText == <<"d", "e", "l", "T", "e", "x", "t">>
LocalComment == <<"c", "o", "m", "m", "e", "n", "t">>
ColonIns     == <<":", "i", "n", "s">>
ColonDel     == <<":", "d", "e", "l">>

\* The forEach over the text elements of extractTextFromElement.
RECURSIVE AppendMissing(_, _, _)
AppendMissing(root, text, paths) ==
    IF paths = <<>> THEN text
    ELSE LET elementText == TextContent(NodeAt(root, Head(paths))) IN
         AppendMissing(root,
             IF Truthy(elementText) /\ ~Includes(text, elementText)
             THEN text \o <<" ">> \o elementText ELSE text,
             Tail(paths))

ExtractTextFromElement2(root, path) ==
    Trim(AppendMissing(root, TextContent(NodeAt(root, path)),
             ElemQuerySelectorAll(root, path,
                 {LocalT, TagT, LocalDelText, TagDelText})))

\* getAttribute('w:author') || getAttribute('author') || 'Unknown'
AuthorOf2(el) ==
    OrElse(OrElse(GetAttribute(el, AttrAuthor), GetAttribute(el, PlainAuthor)),
           Unknown)

\* getAttribute('w:date') || getAttribute('date'), Null when falsy
DateOf2(el) ==
    OrElse(OrElse(GetAttribute(el, AttrDate), GetAttribute(el, PlainDate)),
           Null)

\* A push without its guard.
Emits2_Always(text) == TRUE

\* The guard of every push: if (text.trim())
Emits2(text) == Truthy(Trim(text))

InsProto2(root, path, index) ==
    LET text == ExtractTextFromElement2(root, path)
        el   == NodeAt(root, path) IN
    Proto("ins", index, "added", Trim(text), Null, AuthorOf2(el), DateOf2(el),
          0, Len(text), Null, path)

\* A deletion that carries its text in `text` as well.
DelProto2_KeepsText(root, path, index) ==
    LET text == ExtractTextFromElement2(root, path)
        el   == NodeAt(root, path) IN
    Proto("del", index, "deleted", Trim(text), Trim(text), AuthorOf2(el),
          DateOf2(el), 0, Len(text), Null, path)

DelProto2(root, path, index) ==
    LET text == ExtractTextFromElement2(root, path)
        el   == NodeAt(root, path) IN
    Proto("del", index, "deleted", <<>>, Trim(text), AuthorOf2(el),
          DateOf2(el), 0, Len(text), Null, path)

CommentProto2(root, path, index) ==
    LET text == ExtractTextFromElement2(root, path)
        el   == NodeAt(root, path) IN
    Proto("comment", index, "comment", Trim(text), Null, AuthorOf2(el),
          DateOf2(el), 0, 0, Trim(text), path)

\* The callback of the forEach over all elements: tagName.includes(':ins')
\* or tagName.includes(':del'), author and date from the w: attributes only.
IsPrefixedChange(el) == Includes(el.tag, ColonIns) \/ Includes(el.tag, ColonDel)

AnyProto2(root, path, index) ==
    LET text        == ExtractTextFromElement2(root, path)
        el          == NodeAt(root, path)
        isInsertion == Includes(el.tag, ColonIns) IN
    Proto(IF isInsertion THEN "ins" ELSE "del", index,
          IF isInsertion THEN "added" ELSE "deleted",
          IF isInsertion THEN Trim(text) ELSE <<>>,
          IF isInsertion THEN Null ELSE Trim(text),
          OrElse(GetAttribute(el, AttrAuthor), Unknown),
          OrElse(GetAttribute(el, AttrDate), Null),
          0, Len(text), Null, path)

\* The pushes of one forEach over paths, i being the position of the first.
RECURSIVE Pushes2(_, _, _, _)
Pushes2(root, paths, kind, i) ==
    IF i > Len(paths) THEN <<>>
    ELSE (IF /\ kind = "any" => IsPrefixedChange(NodeAt(root, paths[i]))
             /\ Emits2(ExtractTextFromElement2(root, paths[i]))
          THEN <<CASE kind = "ins"     -> InsProto2(root, paths[i], i - 1)
                   [] kind = "del"     -> DelProto2(root, paths[i], i - 1)
                   [] kind = "comment" -> CommentProto2(root, paths[i], i - 1)
                   [] OTHER            -> AnyProto2(root, paths[i], i - 1)>>
          ELSE <<>>)
         \o Pushes2(root, paths, kind, i + 1)

\* extractChangesFromXML: the pushes of a run no callback of which raises.
ExtractChangesFromXML2(xmlDoc) ==
    Pushes2(xmlDoc, QuerySelectorAll(xmlDoc, {LocalIns, TagIns}), "ins", 1)
    \o Pushes2(xmlDoc, QuerySelectorAll(xmlDoc, {LocalDel, TagDel}), "del", 1)
    \o Pushes2(xmlDoc, AllPaths(xmlDoc), "any", 1)

\* extractCommentsFromXML
ExtractCommentsFromXML2(xmlDoc) ==
    Pushes2(xmlDoc, QuerySelectorAll(xmlDoc, {LocalComment, TagComment}),
            "comment", 1)

---------------------------------------------------------------------------
(* The fallback pattern extractor (the same in both versions):             *)
(* parseAlternativeTrackChanges                                            *)

LitAdded ==
    <<"[", "A", "d", "d", "e", "d", ":", " ">>
LitDeleted ==
    <<"[", "D", "e", "l", "e", "t", "e", "d", ":", " ">>
LitModified ==
    <<"[", "M", "o", "d", "i", "f", "i", "e", "d", ":", " ">>
LitArrow == <<" ", "-", ">", " ">>
AddedDetected ==
    <<"A", "d", "d", "e", "d", " ", "c", "o", "n", "t", "e", "n", "t",
      " ", "d", "e", "t", "e", "c", "t", "e", "d">>
DeletedDetected ==
    <<"D", "e", "l", "e", "t", "e", "d", " ", "c", "o", "n", "t", "e",
      "n", "t", " ", "d", "e", "t", "e", "c", "t", "e", "d">>
ModifiedDetected ==
    <<"M", "o", "d", "i", "f", "i", "e", "d", " ", "c", "o", "n", "t",
      "e", "n", "t", " ", "d", "e", "t", "e", "c", "t", "e", "d">>

NoMatch == [index |-> -1, len |-> 0, g1 |-> <<>>, g2 |-> <<>>]

\* (.+?)\] from position p: the position of the first "]" after at least
\* one character, no line end before it; 0 when there is none.
RECURSIVE CloseFrom(_, _)
CloseFrom(s, j) ==
    IF j > Len(s) THEN 0
    ELSE IF s[j] = "]" THEN j
    ELSE IF IsLineEnd(s[j]) THEN 0
    ELSE CloseFrom(s, j + 1)

LazyClose(s, p) ==
    IF p > Len(s) \/ IsLineEnd(s[p]) THEN 0 ELSE CloseFrom(s, p + 1)

\* /\[Added: (.+?)\]/ and /\[Deleted: (.+?)\]/ tried at position i. The
\* match index is 0-based, as match.index is.
MatchOneGroupAt(s, prefix, i) ==
    LET p     == i + Len(prefix)
        close == LazyClose(s, p) IN
    IF StartsAt(s, prefix, i) /\ close > 0
    THEN [index |-> i - 1, len |-> close - i + 1,
          g1 |-> SubSeq(s, p, close - 1), g2 |-> <<>>]
    ELSE NoMatch

\* (.+?) -> (.+?)\] from position p, the first group ending at e or later:
\* the shortest first group after which " -> ", a second group and "]"
\* follow.
RECURSIVE ArrowFrom(_, _, _)
ArrowFrom(s, p, e) ==
    IF e > Len(s) \/ IsLineEnd(s[e]) THEN <<0, 0>>
    ELSE IF StartsAt(s, LitArrow, e + 1)
            /\ LazyClose(s, e + 1 + Len(LitArrow)) > 0
         THEN <<e, LazyClose(s, e + 1 + Len(LitArrow))>>
         ELSE ArrowFrom(s, p, e + 1)

\* /\[Modified: (.+?) -> (.+?)\]/ tried at position i.
MatchModifiedAt(s, i) ==
    LET p  == i + Len(LitModified)
        ec == ArrowFrom(s, p, p) IN
    IF StartsAt(s, LitModified, i) /\ ec[1] > 0
    THEN [index |-> i - 1, len |-> ec[2] - i + 1,
          g1 |-> SubSeq(s, p, ec[1]),
          g2 |-> SubSeq(s, ec[1] + 1 + Len(LitArrow), ec[2] - 1)]
    ELSE NoMatch

MatchAt(s, kind, i) ==
    CASE kind = "added"   -> MatchOneGroupAt(s, LitAdded, i)
      [] kind = "deleted" -> MatchOneGroupAt(s, LitDeleted, i)
      [] OTHER            -> MatchModifiedAt(s, i)

\* The while loop over pattern.exec(content) of a global pattern: the
\* leftmost match from lastIndex on, then on from its end.
RECURSIVE ExecAll(_, _, _)
ExecAll(s, kind, i) ==
    IF i > Len(s) THEN <<>>
    ELSE LET m == MatchAt(s, kind, i) IN
         IF m = NoMatch THEN ExecAll(s, kind, i + 1)
         ELSE <<m>> \o ExecAll(s, kind, i + m.len)

AltAdded(m, index) ==
    Proto("alt-added", index, "added", m.g1, Null, DocumentAuthor, Null,
          m.index, m.index + m.len, AddedDetected, <<index>>)

AltDeleted(m, index) ==
    Proto("alt-deleted", index, "deleted", <<>>, m.g1, DocumentAuthor, Null,
          m.index, m.index + m.len, DeletedDetected, <<index>>)

\* A modified change located like a structured one: 0 to the length of
\* its text.
AltModified_StructuredLocation(m, index) ==
    Proto("alt-modified", index, "modified", m.g2, m.g1, DocumentAuthor, Null,
          0, Len(m.g2), ModifiedDetected, <<index>>)

AltModified(m, index) ==
    Proto("alt-modified", index, "modified", m.g2, m.g1, DocumentAuthor, Null,
          m.index, m.index + m.len, ModifiedDetected, <<index>>)

\* The matches in the order deleted, added, modified.
ParseAlternativeTrackChanges_DeletedFirst(content) ==
    LET a == ExecAll(content, "added", 1)
        d == ExecAll(content, "deleted", 1)
        m == ExecAll(content, "modified", 1) IN
    [i \in 1..Len(d) |-> AltDeleted(d[i], i - 1)]
    \o [i \in 1..Len(a) |-> AltAdded(a[i], Len(d) + i - 1)]
    \o [i \in 1..Len(m) |-> AltModified(m[i], Len(a) + Len(d) + i - 1)]

ParseAlternativeTrackChanges(content) ==
    LET a == ExecAll(content, "added", 1)
        d == ExecAll(content, "deleted", 1)
        m == ExecAll(content, "modified", 1) IN
    [i \in 1..Len(a) |-> AltAdded(a[i], i - 1)]
    \o [i \in 1..Len(d) |-> AltDeleted(d[i], Len(a) + i - 1)]
    \o [i \in 1..Len(m) |-> AltModified(m[i], Len(a) + Len(d) + i - 1)]

---------------------------------------------------------------------------
(* Input files: what the collaborators yield for a file. html is what      *)
(* mammoth.convertToHtml resolves with when it succeeds, zip whether       *)
(* JSZip can open the bytes, doc and comments the archive entries          *)
(* word/document.xml and word/comments.xml.                                *)

\* What mammoth.convertToHtml yields for the files of the model.
HtmlEmpty == <<>>
HtmlPlain ==
    <<"<", "p", ">", "x", " ", " ", "y", "<", "/", "p", ">">>
HtmlAdded ==
    <<"<", "p", ">", "[", "A", "d", "d", "e", "d", ":", " ", "X", "]",
      "<", "/", "p", ">">>
HtmlMixed ==
    <<"<", "p", ">", "[", "D", "e", "l", "e", "t", "e", "d", ":", " ",
      "p", "]", "<", "/", "p", ">", "<", "p", ">", "[", "A", "d", "d",
      "e", "d", ":", " ", "q", "]", " ", "[", "M", "o", "d", "i", "f",
      "i", "e", "d", ":", " ", "a", " ", "-", ">", " ", "b", "]", "<",
      "/", "p", ">">>
HtmlFee ==
    <<"<", "p", ">", "T", "h", "e", " ", "f", "e", "e", " ", "i", "s",
      " ", "[", "M", "o", "d", "i", "f", "i", "e", "d", ":", " ", "$",
      "1", "0", "0", " ", "-", ">", " ", "$", "1", "5", "0", "]", " ",
      "p", "e", "r", " ", "m", "o", "n", "t", "h", ".", "<", "/", "p",
      ">">>

\* <p>[Added: q][Modified: a -> b][Added: r]</p>
HtmlTwice ==
    <<"<", "p", ">", "[", "A", "d", "d", "e", "d", ":", " ", "q", "]",
      "[", "M", "o", "d", "i", "f", "i", "e", "d", ":", " ", "a", " ",
      "-", ">", " ", "b", "]", "[", "A", "d", "d", "e", "d", ":", " ",
      "r", "]", "<", "/", "p", ">">>

Htmls == {HtmlEmpty, HtmlPlain, HtmlAdded, HtmlMixed, HtmlFee, HtmlTwice}

\* <w:comment w:author="C" w:date="2024"><w:r><w:t>n</w:t></w:r></w:comment>
CommentC == Elem(TagComment,
                 <<Attr(AttrAuthor, <<"C">>), Attr(AttrDate, Year2024)>>,
                 <<Run(<<"n">>)>>)
\* <w:comment><w:r><w:t> </w:t></w:r></w:comment>
CommentWs == Elem(TagComment, <<>>, <<Run(<<" ">>)>>)
\* <w:comments>...</w:comments>, and the same below another root element.
Comments(cs) == Elem(TagComments, <<>>, cs)
WrappedComments(cs) == Elem(TagPkg, <<>>, <<Comments(cs)>>)

NoRoot == Elem(<<>>, <<>>, <<>>)

\* An archive entry: absent; empty (''); unreadable (async('text')
\* rejects); blank (whitespace only); malformed (root is what is well-formed
\* ahead of the error); wellformed.
Entry(kind, root) == [kind |-> kind, root |-> root]

DocEntries ==
    {Entry(k, NoRoot) : k \in {"absent", "empty", "unreadable", "blank"}}
    \cup {Entry("malformed", Document(<<InsA>>))}
    \cup {Entry("wellformed", Document(b)) : b \in Bodies}
    \cup {Entry("wellformed", Wrapped(b)) : b \in Bodies}

CommentEntries ==
    {Entry(k, NoRoot) : k \in {"absent", "unreadable"}}
    \cup {Entry("malformed", Comments(<<CommentC>>)),
          Entry("wellformed", Comments(<<CommentWs, CommentC>>)),
          Entry("wellformed", WrappedComments(<<CommentWs, CommentC>>))}

\* The files of the model. An entry that is never read is fixed to absent.
Files ==
    {f \in [html : Htmls, zip : BOOLEAN, doc : DocEntries,
            comments : CommentEntries] :
        /\ ~f.zip => f.doc.kind = "absent"
        /\ f.doc.kind \in {"absent", "empty", "unreadable"}
             => f.comments.kind = "absent"}

\* <parsererror> document DOMParser returns for XML that is not well-formed.
ParserError == Elem(<<"p", "a", "r", "s", "e", "r", "e", "r", "r", "o", "r">>,
                    <<>>, <<Txt(<<"e", "r", "r", "o", "r">>)>>)

\* DOMParser.parseFromString(xml, 'text/xml') never raises. For XML that is
\* not well-formed the result depends on the browser: a document holding
\* only <parsererror> (keepPartial = FALSE), or the part parsed ahead of the
\* error with <parsererror> as the first child of its root (TRUE).
ParseFromString(entry, keepPartial) ==
    IF entry.kind = "wellformed" THEN entry.root
    ELSE IF entry.kind = "malformed" /\ keepPartial
    THEN [entry.root EXCEPT !.kids = <<ParserError>> \o @]
    ELSE ParserError

\* parseXMLPromise: rejects for XML that is not well-formed; xml2js
\* resolves a whitespace-only string with null.
ParseXMLPromiseRejects(entry) == entry.kind = "malformed"
ParseXMLPromise(entry) ==
    IF entry.kind = "blank" THEN JNull ELSE ParseXml1(entry.root)

---------------------------------------------------------------------------
(* The parser as a state machine: one parseDocument call, stepping from    *)
(* await to await.                                                         *)

\* The largest value of the clock (Date.now) the model lets it reach.
MaxClock == 1

VARIABLES
    version,   \* "xml2js" or "dom"
    file,      \* the File passed to parseDocument
    now,       \* the clock: what Date.now() and new Date() read
    rnd,       \* number of Math.random() calls so far
    pc,        \* where the call stands
    content,   \* textContent of parseDocument
    changes,   \* the accumulator `changes` of extractTrackChanges
    ret,       \* what extractTrackChanges returned
    result,    \* what parseDocument returned
    h,         \* history of the call (not program state)
    documentState, \* the state of the Index page
    ui         \* the other state of the page and of its components

vars == <<version, file, now, rnd, pc, content, changes, ret, result, h,
          documentState, ui>>

NoResult == [content |-> <<>>, changes |-> <<>>,
             metadata |-> [wordCount |-> -1, changeCount |-> -1,
                           authors |-> <<>>]]

\* h.conv1     : outcome of the conversion of parseDocument
\* h.convCalls : calls of mammoth.convertToHtml
\* h.caught    : the catch block of extractTrackChanges was entered
\* h.cause     : what raised into it
\* h.faulted   : a catch block of extractChangesFromXML or
\*               extractCommentsFromXML was entered
\* h.raises    : the value of `changes` at each raise
\* h.altRuns   : calls of parseAlternativeTrackChanges
\* h.altText   : the text of the last such call
\* h.alt       : what the last such call returned
\* h.docTree   : the document.xml tree extractChangesFromXML was called on
\* h.comTree   : the comments.xml tree extractCommentsFromXML was called on
\* h.other     : the locals of the other call of two, NoOther for one call
\* h.interleaved : the two calls were both under way at a switch
NoOther == [pc |-> "none"]

\* useState<DocumentState | null>(null)
NoDocumentState == [none |-> TRUE]

\* The state of the page and of its components next to documentState, as
\* the components are mounted, and where an upload stands.
\* ui.isUploading   : isUploading of Index
\* ui.uploadedFile  : uploadedFile of DocumentUpload, a file name or Null
\* ui.newSuggestion : newSuggestion of RedlinePanel
\* ui.newComment    : newComment of RedlinePanel
\* ui.toasts        : the messages passed to toast.success and toast.error,
\*                    each the tuple of its parts
\* ui.at            : "idle", or where onDrop stands
\* ui.dropped       : the name of the file of the last onDrop (not state)
\* ui.drops         : calls of onDrop (not state)
\* ui.calls         : calls of onFileUpload (not state)
NoUi ==
    [isUploading |-> FALSE, uploadedFile |-> Null,
     newSuggestion |-> "", newComment |-> <<>>, toasts |-> {},
     at |-> "idle", dropped |-> Null, drops |-> 0, calls |-> 0]
NoHistory ==
    [conv1 |-> "none", convCalls |-> 0, caught |-> FALSE, cause |-> "none",
     faulted |-> FALSE, raises |-> <<>>, altRuns |-> 0, altText |-> <<>>,
     alt |-> <<>>, docTree |-> NoRoot, comTree |-> NoRoot,
     other |-> NoOther, interleaved |-> FALSE]

Init ==
    /\ version \in {"xml2js", "dom"}
    /\ file \in Files
    /\ now = 0
    /\ rnd = 0
    /\ pc = "convert"
    /\ content = <<>>
    /\ changes = <<>>
    /\ ret = <<>>
    /\ result = NoResult
    /\ h = NoHistory
    /\ documentState = NoDocumentState
    /\ ui = NoUi

\* Non-decreasing sequences of n clock values from lo to hi.
RECURSIVE Schedules(_, _, _)
Schedules(n, lo, hi) ==
    IF n = 0 THEN {<<>>}
    ELSE UNION {{<<t>> \o r : r \in Schedules(n - 1, t, hi)} : t \in lo..hi}

\* The id of the change a callback pushes: version "xml2js" reads
\* Date.now() and Math.random(), version "dom" Date.now() and the forEach
\* index, the fallback its own counter. Math.random() is taken never to
\* return a value twice: its r-th call returns r.
IdOf(p, t, r) ==
    IF p.prefix \in {"alt-added", "alt-deleted", "alt-modified"}
    THEN <<p.prefix, p.index>>
    ELSE IF version = "xml2js" THEN <<p.prefix, t, r>>
    ELSE <<p.prefix, t, p.index>>

\* The changes pushed for protos, the i-th at clock value times[i] and as
\* the (r0 + i)-th caller of Math.random().
Stamp(protos, times, r0) ==
    [i \in 1..Len(protos) |->
        NewChange(IdOf(protos[i], times[i], r0 + i), protos[i], times[i])]

\* A traversal pushes protos in order. In version "xml2js" a callback may
\* raise: findElementsRecursive and extractTextRecursive recurse once per
\* nesting level, and a tree nested deeper than the call stack allows ends
\* them in a RangeError. That ends the traversal in the catch block of its
\* extractor with the pushes made so far. Version "dom" walks the tree with
\* the DOM's own querySelectorAll and textContent, and its callbacks call
\* nothing that raises. kept is the number of pushes made, raised whether a
\* callback raised.
Traversals(protos) ==
    {[kept |-> Len(protos), raised |-> FALSE]}
    \cup (IF version = "xml2js"
          THEN {[kept |-> j, raised |-> TRUE] : j \in 0..(Len(protos) - 1)}
          ELSE {})

\* A try block that hands an empty list to the fallback.
StructuredReturn_FallbackOnEmpty(chs) ==
    IF chs = <<>> THEN [pc |-> "getTextContent", ret |-> chs]
    ELSE [pc |-> "assemble", ret |-> chs]

\* The end of the try block: an empty list is logged and returned like any
\* other.
StructuredReturn(chs) == [pc |-> "assemble", ret |-> chs]

\* The step of a traversal: appends to `changes`. last: the try block of
\* extractTrackChanges ends with it, else the call goes on at nextPc.
Traverse(protos, tree, which, nextPc, last) ==
    \E tr \in Traversals(protos) :
    \E times \in Schedules(tr.kept, now, MaxClock) :
        LET pushed == Stamp(SubSeq(protos, 1, tr.kept), times, rnd)
            all    == changes \o pushed IN
        /\ changes' = all
        /\ now' = IF tr.kept = 0 THEN now ELSE times[tr.kept]
        /\ rnd' = IF version = "xml2js" THEN rnd + tr.kept ELSE rnd
        /\ pc' = IF last THEN StructuredReturn(all).pc ELSE nextPc
        /\ ret' = IF last THEN StructuredReturn(all).ret ELSE ret
        /\ h' = [h EXCEPT
                   !.faulted = @ \/ tr.raised,
                   !.raises = IF tr.raised THEN Append(@, all) ELSE @,
                   !.docTree = IF which = "doc" THEN tree ELSE @,
                   !.comTree = IF which = "comments" THEN tree ELSE @]

\* A catch block that rethrows.
CatchTarget_Rethrow == "raised"

\* The catch block of extractTrackChanges up to its first await.
CatchTarget == "getTextContent"

Catch(cause) ==
    /\ pc' = CatchTarget
    /\ h' = [h EXCEPT !.caught = TRUE, !.cause = cause,
                      !.raises = Append(@, changes)]
    /\ UNCHANGED <<now, rnd, changes, ret>>

\* parseDocument up to its await of mammoth.convertToHtml and what follows
\* it: a failure is rethrown as 'Failed to parse document'.
ConvertToHtml ==
    /\ pc = "convert"
    /\ \E ok \in BOOLEAN :
        /\ pc' = IF ok THEN "loadAsync" ELSE "raised"
        /\ content' = IF ok THEN HtmlToText(file.html) ELSE content
        /\ h' = [h EXCEPT !.conv1 = IF ok THEN "ok" ELSE "fail",
                          !.convCalls = @ + 1]
    /\ UNCHANGED <<ui, documentState, version, file, now, rnd, changes, ret, result>>

\* await zip.loadAsync(file)
LoadArchive ==
    /\ pc = "loadAsync"
    /\ IF file.zip
       THEN /\ pc' = "readDocument"
            /\ UNCHANGED <<now, rnd, changes, ret, h>>
       ELSE Catch("archive")
    /\ UNCHANGED <<ui, documentState, version, file, content, result>>

\* The XML tree the version's tree builder resolves an entry to.
TreeOf(entry, keepPartial) ==
    IF version = "dom" THEN ParseFromString(entry, keepPartial)
    ELSE IF entry.kind = "blank" THEN NoRoot ELSE entry.root

\* What extractChangesFromXML and extractCommentsFromXML push for an entry.
DocProtos(entry, keepPartial) ==
    IF version = "xml2js" THEN ExtractChangesFromXML1(ParseXMLPromise(entry))
    ELSE ExtractChangesFromXML2(ParseFromString(entry, keepPartial))

CommentProtos(entry, keepPartial) ==
    IF version = "xml2js" THEN ExtractCommentsFromXML1(ParseXMLPromise(entry))
    ELSE ExtractCommentsFromXML2(ParseFromString(entry, keepPartial))

\* await docxContents.file('word/document.xml')?.async('text') and the
\* check that follows; in version "dom" also the parse and
\* extractChangesFromXML, which follow with no await.
ReadDocumentXml ==
    /\ pc = "readDocument"
    /\ IF file.doc.kind \in {"absent", "empty"} THEN Catch("nodocument")
       ELSE IF file.doc.kind = "unreadable" THEN Catch("entry")
       ELSE IF version = "xml2js"
       THEN /\ pc' = "parseDocument"
            /\ UNCHANGED <<now, rnd, changes, ret, h>>
       ELSE \E keepPartial \in BOOLEAN :
                Traverse(DocProtos(file.doc, keepPartial),
                         TreeOf(file.doc, keepPartial), "doc",
                         "readComments", FALSE)
    /\ UNCHANGED <<ui, documentState, version, file, content, result>>

\* Version "xml2js": await this.parseXMLPromise(documentXml), then
\* extractChangesFromXML.
ParseDocumentXml ==
    /\ pc = "parseDocument"
    /\ IF ParseXMLPromiseRejects(file.doc) THEN Catch("xml")
       ELSE Traverse(DocProtos(file.doc, FALSE), TreeOf(file.doc, FALSE),
                     "doc", "readComments", FALSE)
    /\ UNCHANGED <<ui, documentState, version, file, content, result>>

\* await docxContents.file('word/comments.xml')?.async('text'); without
\* comments the try block ends; in version "dom" the parse and
\* extractCommentsFromXML follow with no await.
ReadCommentsXml ==
    /\ pc = "readComments"
    /\ IF file.comments.kind \in {"absent", "empty"}
       THEN /\ pc' = StructuredReturn(changes).pc
            /\ ret' = StructuredReturn(changes).ret
            /\ UNCHANGED <<now, rnd, changes, h>>
       ELSE IF file.comments.kind = "unreadable" THEN Catch("entry")
       ELSE IF version = "xml2js"
       THEN /\ pc' = "parseComments"
            /\ UNCHANGED <<now, rnd, changes, ret, h>>
       ELSE \E keepPartial \in BOOLEAN :
                Traverse(CommentProtos(file.comments, keepPartial),
                         TreeOf(file.comments, keepPartial), "comments",
                         "assemble", TRUE)
    /\ UNCHANGED <<ui, documentState, version, file, content, result>>

\* Version "xml2js": await this.parseXMLPromise(commentsXml), then
\* extractCommentsFromXML and the end of the try block.
ParseCommentsXml ==
    /\ pc = "parseComments"
    /\ IF ParseXMLPromiseRejects(file.comments) THEN Catch("xml")
       ELSE Traverse(CommentProtos(file.comments, FALSE),
                     TreeOf(file.comments, FALSE), "comments",
                     "assemble", TRUE)
    /\ UNCHANGED <<ui, documentState, version, file, content, result>>

\* getTextContent: the plain text, '' when the conversion fails.
GetTextContent(ok) == IF ok THEN HtmlToText(file.html) ELSE <<>>

\* The catch block of extractTrackChanges from its await of getTextContent:
\* the fallback's list when it holds a change, else the empty list.
FallbackAttempt ==
    /\ pc = "getTextContent"
    /\ \E ok \in BOOLEAN :
       LET textContent == GetTextContent(ok)
           protos      == ParseAlternativeTrackChanges(textContent) IN
       \E times \in Schedules(Len(protos), now, MaxClock) :
           LET alternativeChanges == Stamp(protos, times, rnd) IN
           /\ ret' = IF Len(alternativeChanges) > 0
                     THEN alternativeChanges ELSE <<>>
           /\ now' = IF protos = <<>> THEN now ELSE times[Len(protos)]
           /\ h' = [h EXCEPT !.convCalls = @ + 1, !.altRuns = @ + 1,
                             !.altText = textContent,
                             !.alt = alternativeChanges]
    /\ pc' = "assemble"
    /\ UNCHANGED <<ui, documentState, version, file, rnd, content, changes, result>>

\* Number of maximal whitespace runs of s.
RECURSIVE WsRuns(_)
WsRuns(s) ==
    IF s = <<>> THEN 0
    ELSE IF IsWs(Head(s)) THEN 1 + WsRuns(SubSeq(s, 1 + LeadWs(s), Len(s)))
    ELSE WsRuns(Tail(s))

\* textContent.split(/\s+/).length: one piece more than separators.
SplitCount(s) == WsRuns(s) + 1

\* The list as it is, duplicates kept.
Distinct_KeepsDuplicates(list) == list

\* [...new Set(list)]: duplicates removed, first appearances kept in order.
RECURSIVE Distinct(_)
Distinct(list) ==
    IF list = <<>> THEN <<>>
    ELSE LET front == Distinct(SubSeq(list, 1, Len(list) - 1))
             x     == list[Len(list)] IN
         IF \E i \in 1..Len(front) : front[i] = x THEN front
         ELSE Append(front, x)

Metadata(textContent, chs) ==
    [wordCount   |-> SplitCount(textContent),
     changeCount |-> Len(chs),
     authors     |-> Distinct([i \in 1..Len(chs) |-> chs[i].author])]

\* parseDocument from the return of extractTrackChanges to its own return.
Assemble ==
    /\ pc = "assemble"
    /\ result' = [content |-> content, changes |-> ret,
                  metadata |-> Metadata(content, ret)]
    /\ pc' = "done"
    /\ UNCHANGED <<ui, documentState, version, file, now, rnd, content, changes, ret, h>>

\* Time passes while the call waits.
Tick ==
    /\ pc \notin {"done", "raised"}
    /\ now < MaxClock
    /\ now' = now + 1
    /\ UNCHANGED <<ui, documentState, version, file, rnd, pc, content, changes, ret, result, h>>

Next ==
    \/ ConvertToHtml
    \/ LoadArchive
    \/ ReadDocumentXml
    \/ ParseDocumentXml
    \/ ReadCommentsXml
    \/ ParseCommentsXml
    \/ FallbackAttempt
    \/ Assemble
    \/ Tick

Spec == Init /\ [][Next]_vars

---------------------------------------------------------------------------
(* Two parseDocument calls under way at once. Every step above runs from   *)
(* one await to the next, so the calls interleave by switching between     *)
(* steps. The variables hold the locals of the call that runs, h.other     *)
(* those of the call that waits; the clock and Math.random are the         *)
(* program's and are shared.                                               *)

\* A static accumulator in place of the local of each call.
SharedChanges_Static == TRUE

\* `const changes: RedlineChange[] = []` is a local of each call of
\* extractTrackChanges.
SharedChanges == FALSE

\* The locals of the call that runs.
Locals ==
    [file |-> file, pc |-> pc, content |-> content, changes |-> changes,
     ret |-> ret, result |-> result,
     h |-> [h EXCEPT !.other = NoOther, !.interleaved = FALSE]]

\* The locals of a call that has not begun.
InitLocals(f) ==
    [file |-> f, pc |-> "convert", content |-> <<>>, changes |-> <<>>,
     ret |-> <<>>, result |-> NoResult, h |-> NoHistory]

UnderWay(l) == l.pc \notin {"convert", "done", "raised"}

\* The event loop goes on with the other call.
Switch ==
    /\ h.other # NoOther
    /\ file' = h.other.file
    /\ pc' = h.other.pc
    /\ content' = h.other.content
    /\ changes' = IF SharedChanges THEN changes ELSE h.other.changes
    /\ ret' = h.other.ret
    /\ result' = h.other.result
    /\ h' = [h.other.h EXCEPT
               !.other = Locals,
               !.interleaved = h.interleaved
                               \/ (UnderWay(Locals) /\ UnderWay(h.other))]
    /\ UNCHANGED <<ui, documentState, version, now, rnd>>

\* The pairs of files the two calls are given.
FileStructured ==
    [html |-> HtmlMixed, zip |-> TRUE,
     doc |-> Entry("wellformed", Wrapped(<<InsPlain, DelB>>)),
     comments |-> Entry("wellformed",
                        WrappedComments(<<CommentWs, CommentC>>))]
FileNoDocument ==
    [html |-> HtmlFee, zip |-> TRUE, doc |-> Entry("absent", NoRoot),
     comments |-> Entry("absent", NoRoot)]
FileValid ==
    [html |-> HtmlAdded, zip |-> TRUE,
     doc |-> Entry("wellformed", Document(<<InsA>>)),
     comments |-> Entry("wellformed", Comments(<<CommentWs, CommentC>>))]
FilePairs ==
    {<<FileStructured, FileNoDocument>>, <<FileStructured, FileValid>>,
     <<FileValid, FileNoDocument>>}

ConcInit ==
    /\ version \in {"xml2js", "dom"}
    /\ \E pair \in FilePairs :
        /\ file = pair[1]
        /\ h = [NoHistory EXCEPT !.other = InitLocals(pair[2])]
    /\ now = 0
    /\ rnd = 0
    /\ pc = "convert"
    /\ content = <<>>
    /\ changes = <<>>
    /\ ret = <<>>
    /\ result = NoResult
    /\ documentState = NoDocumentState
    /\ ui = NoUi

ConcNext ==
    \/ ConvertToHtml
    \/ LoadArchive
    \/ ReadDocumentXml
    \/ ParseDocumentXml
    \/ ReadCommentsXml
    \/ ParseCommentsXml
    \/ FallbackAttempt
    \/ Assemble
    \/ Tick
    \/ Switch

ConcSpec == ConcInit /\ [][ConcNext]_vars

---------------------------------------------------------------------------
(* The Index page (src/unnamed/part_000) on a loaded document: the state   *)
(* handleFileUpload sets from the result of parseDocument, and the         *)
(* handlers of the panel and the viewer. Each handler hands                *)
(* setDocumentState a function of the previous state.                      *)

\* The most calls of handleSuggestionAdd and handleCommentAdd the model
\* makes on one document.
MaxAdds == 2

\* resolved: true. An absent field being Null, a tuple, the value true is
\* a tuple as well.
True == <<"true">>

ContractManager ==
    <<"C", "o", "n", "t", "r", "a", "c", "t", " ", "M", "a", "n", "a",
      "g", "e", "r">>

\* handleFileUpload: the state set from what parseDocument returned.
Loaded(res) ==
    [metadata |-> res.metadata, changes |-> res.changes,
     collaborationComments |-> <<>>, selectedChangeId |-> Null,
     documentContent |-> res.content, originalContent |-> res.content]

\* handleChangeSelect
ChangeSelect(prev, changeId) ==
    IF prev = NoDocumentState THEN NoDocumentState
    ELSE [prev EXCEPT !.selectedChangeId = changeId]

\* A map over the changes that rebuilds each change from its text.
SuggestionAdd_Rebuilds(prev, changeId, suggestion) ==
    IF prev = NoDocumentState THEN NoDocumentState
    ELSE [prev EXCEPT !.changes =
            [i \in DOMAIN @ |->
                IF @[i].id = changeId
                THEN [@[i] EXCEPT !.suggestions = <<suggestion>>]
                ELSE @[i]]]

\* handleSuggestionAdd
SuggestionAdd(prev, changeId, suggestion) ==
    IF prev = NoDocumentState THEN NoDocumentState
    ELSE [prev EXCEPT !.changes =
            [i \in DOMAIN @ |->
                IF @[i].id = changeId
                THEN [@[i] EXCEPT !.suggestions =
                        Append(IF @ = Null THEN <<>> ELSE @, suggestion)]
                ELSE @[i]]]

\* handleCommentAdd, the comment made at clock value t
CommentAdd(prev, changeId, comment, t) ==
    LET newComment == [id |-> <<"comment", t>>, changeId |-> changeId,
                       author |-> ContractManager, content |-> comment,
                       timestamp |-> ClockTime(t)] IN
    IF prev = NoDocumentState THEN NoDocumentState
    ELSE [prev EXCEPT !.collaborationComments = Append(@, newComment)]

\* A resolve that keeps the resolved changes only out of the list.
ChangeResolve_Removes(prev, changeId) ==
    IF prev = NoDocumentState THEN NoDocumentState
    ELSE [prev EXCEPT !.changes =
            SelectSeq(@, LAMBDA c : c.id # changeId)]

\* handleChangeResolve
ChangeResolve(prev, changeId) ==
    IF prev = NoDocumentState THEN NoDocumentState
    ELSE [prev EXCEPT !.changes =
            [i \in DOMAIN @ |->
                IF @[i].id = changeId THEN [@[i] EXCEPT !.resolved = True]
                ELSE @[i]]]

\* handleContentChange
ContentChange(prev, newContent) ==
    IF prev = NoDocumentState THEN NoDocumentState
    ELSE [prev EXCEPT !.documentContent = newContent]

\* The files the page of the model has loaded: one whose changes come from
\* word/document.xml, one whose changes come from the fallback.
FileNested ==
    [html |-> HtmlPlain, zip |-> TRUE,
     doc |-> Entry("wellformed", Document(<<InsNested, InsA>>)),
     comments |-> Entry("absent", NoRoot)]
FileBrackets ==
    [html |-> HtmlMixed, zip |-> TRUE, doc |-> Entry("absent", NoRoot),
     comments |-> Entry("absent", NoRoot)]

\* What parseDocument of version "dom" returns for them at clock value 0.
ResultOf(f) ==
    LET text   == HtmlToText(f.html)
        protos == IF f.doc.kind = "absent"
                  THEN ParseAlternativeTrackChanges(text)
                  ELSE DocProtos(f.doc, FALSE)
        chs    == Stamp(protos, [i \in DOMAIN protos |-> 0], 0) IN
    [content |-> text, changes |-> chs, metadata |-> Metadata(text, chs)]

\* The ids the handlers are called with: of the first change, of the last
\* one with the id of another change (or the last), and of no change.
NoSuchId == <<"none">>
ClickIds ==
    LET chs == documentState.changes
        dup == {i \in DOMAIN chs : \E j \in 1..(i - 1) : chs[j].id = chs[i].id}
        pick == IF dup = {} THEN Len(chs)
                ELSE CHOOSE i \in dup : \A j \in dup : j <= i IN
    {chs[1].id, chs[pick].id, NoSuchId}

\* Suggestions are taken whole: a suggestion is a string of the model.
Suggestions == {"s", "t"}
CommentTexts == {<<"c">>}
Contents == {<<"e", "d", "i", "t">>}

UIInit ==
    /\ version = "dom"
    /\ file \in {FileNested, FileBrackets}
    /\ now = 0
    /\ rnd = 0
    /\ pc = "loaded"
    /\ content = HtmlToText(file.html)
    /\ changes = <<>>
    /\ result = ResultOf(file)
    /\ ret = result.changes
    /\ h = NoHistory
    /\ documentState = Loaded(result)
    /\ ui = NoUi

\* The calls of handleSuggestionAdd and handleCommentAdd so far: the
\* longest list of suggestions and the comments.
RECURSIVE Longest(_)
Longest(chs) ==
    IF chs = <<>> THEN 0
    ELSE LET n == IF Head(chs).suggestions = Null THEN 0
                  ELSE Len(Head(chs).suggestions)
             r == Longest(Tail(chs)) IN
         IF n > r THEN n ELSE r

Adds == Longest(documentState.changes)
        + Len(documentState.collaborationComments)

UIFrame == UNCHANGED <<version, file, now, rnd, pc, content, changes, ret,
                       result, h, ui>>

HandleChangeSelect ==
    /\ pc = "loaded"
    /\ \E changeId \in ClickIds :
           documentState' = ChangeSelect(documentState, changeId)
    /\ UIFrame

HandleSuggestionAdd ==
    /\ pc = "loaded"
    /\ \E changeId \in ClickIds, suggestion \in Suggestions :
        /\ Adds < MaxAdds
        /\ documentState' = SuggestionAdd(documentState, changeId, suggestion)
    /\ UIFrame

HandleCommentAdd ==
    /\ pc = "loaded"
    /\ Adds < MaxAdds
    /\ \E changeId \in ClickIds, comment \in CommentTexts :
           documentState' = CommentAdd(documentState, changeId, comment, now)
    /\ UIFrame

HandleChangeResolve ==
    /\ pc = "loaded"
    /\ \E changeId \in ClickIds :
           documentState' = ChangeResolve(documentState, changeId)
    /\ UIFrame

HandleContentChange ==
    /\ pc = "loaded"
    /\ \E newContent \in Contents :
           documentState' = ContentChange(documentState, newContent)
    /\ UIFrame

UINext ==
    \/ HandleChangeSelect
    \/ HandleSuggestionAdd
    \/ HandleCommentAdd
    \/ HandleChangeResolve
    \/ HandleContentChange
    \/ Tick

UISpec == UIInit /\ [][UINext]_vars


---------------------------------------------------------------------------
(* Properties of parseDocument and extractTrackChanges.                    *)

Range(s) == {s[i] : i \in DOMAIN s}
Done == pc = "done"
Blank(s) == Trim(s) = <<>>

\* The archive is a valid .docx: every entry read is well-formed and the
\* root of word/document.xml is w:document.
ValidDocx ==
    /\ file.zip
    /\ file.doc.kind = "wellformed"
    /\ file.doc.root.tag = TagDocument
    /\ file.comments.kind \in {"absent", "wellformed"}

\* Structured extraction ran to the end of its try block and no callback
\* raised on the way.
CompletedCleanly == ~h.caught /\ ~h.faulted

\* Paths of the elements of tree with the given tags.
ElementsOf(tree, tags) ==
    {q \in Range(AllPaths(tree)) : NodeAt(tree, q).tag \in tags}

\* The text the version's extractTextFromElement recovers from the element
\* at path q of tree.
RecoveredText(tree, q) ==
    IF version = "xml2js"
    THEN ExtractTextFromElement1(Xml2jsElement(NodeAt(tree, q), q))
    ELSE ExtractTextFromElement2(tree, q)

\* C1: when structured extraction raises with changes already accumulated,
\* the returned list is the complete list of the fallback or the empty
\* list, and holds none of the accumulated changes.
C1_NoHalfPopulatedList ==
    Done =>
        \A i \in DOMAIN h.raises :
            h.raises[i] # <<>> =>
                /\ \/ result.changes = <<>>
                   \/ h.altRuns = 1 /\ result.changes = h.alt
                /\ Range(h.raises[i]) \cap Range(result.changes) = {}

\* C2: every failure during structured extraction, a raise of a traversal
\* callback included, makes the call run the fallback over the plain text
\* and return the fallback's list or the empty list; the call does not
\* raise.
C2_FailureRunsFallback ==
    /\ pc = "raised" => h.conv1 = "fail"
    /\ Done /\ (h.caught \/ h.faulted) =>
           /\ h.altRuns = 1
           /\ result.changes = h.alt

C4_RaisesIffConversionFails ==
    /\ pc = "raised" <=> h.conv1 = "fail"
    /\ h.cause # "none" <=> h.caught
    /\ h.caught => pc \in {"getTextContent", "assemble", "done"}
    /\ Done => /\ h.conv1 = "ok"
               /\ result.content = HtmlToText(file.html)
               /\ result.changes = ret
               /\ result.metadata = Metadata(result.content, result.changes)

\* A call that returned although the archive, an entry or the XML failed
\* and the conversion of the fallback failed as well.
C4_Witness ==
    /\ Done /\ h.caught
    /\ h.convCalls = 2 /\ content # <<>> /\ h.altText = <<>>
    /\ result.changes = <<>>

\* C5: a word/document.xml that is not well-formed makes structured
\* extraction fail and the fallback run, in each version.
C5_MalformedXmlRunsFallback ==
    Done /\ file.doc.kind = "malformed" => h.caught /\ h.altRuns = 1

\* C6: the ids of a returned list are non-empty and pairwise distinct.
C6_IdsUnique ==
    Done =>
        /\ \A i \in DOMAIN result.changes : result.changes[i].id # <<>>
        /\ \A i, j \in DOMAIN result.changes :
               i # j => result.changes[i].id # result.changes[j].id

\* C7: in every returned list a 'deleted' change has text '' and a
\* non-empty originalText, an 'added' change a non-empty text and no
\* originalText.
C7_AddedDeletedShape ==
    \A c \in Range(ret) \cup Range(result.changes) :
        /\ c.type = "deleted" =>
               c.text = <<>> /\ c.originalText \notin {Null, <<>>}
        /\ c.type = "added" =>
               c.text # <<>> /\ c.originalText = Null

\* A returned list holding an added and a deleted change.
C7_Witness ==
    /\ Done
    /\ \E c \in Range(result.changes) : c.type = "added"
    /\ \E c \in Range(result.changes) : c.type = "deleted"

\* C8: for a valid .docx whose extraction completes, every w:ins element
\* with text has an 'added' change carrying its text, the value of
\* w:author or 'Unknown', and the date parsed from w:date when present.
C8_InsertionReported ==
    Done /\ ValidDocx /\ CompletedCleanly =>
        \A q \in ElementsOf(file.doc.root, {TagIns}) :
            LET el == NodeAt(file.doc.root, q) IN
            ~Blank(TextContent(el)) =>
                \E c \in Range(result.changes) :
                    /\ c.type = "added"
                    /\ c.text = Trim(TextContent(el))
                    /\ c.author = OrElse(GetAttribute(el, AttrAuthor), Unknown)
                    /\ GetAttribute(el, AttrDate) # Null =>
                           c.timestamp = ParseDate(GetAttribute(el, AttrDate))

\* C9: for a valid .docx whose extraction completes, the returned list
\* holds one 'added' change per w:ins element with text, one 'deleted'
\* change per w:del element with text, and no element twice.
C9_OneChangePerNode ==
    Done /\ ValidDocx /\ CompletedCleanly =>
        LET root    == file.doc.root
            withText(tags) ==
                {q \in ElementsOf(root, tags) :
                     ~Blank(TextContent(NodeAt(root, q)))}
            ofType(t) == {i \in DOMAIN result.changes :
                             result.changes[i].type = t} IN
        /\ Cardinality(ofType("added")) = Cardinality(withText({TagIns}))
        /\ Cardinality(ofType("deleted")) = Cardinality(withText({TagDel}))
        /\ \A i, j \in ofType("added") \cup ofType("deleted") :
               i # j => result.changes[i].node # result.changes[j].node

\* C10: an element whose recovered text is empty or whitespace only has no
\* change in the list of structured extraction, nor in the list returned
\* from it.
C10_NoChangeForBlankText ==
    /\ \A c \in Range(changes) :
           LET tree == IF c.type = "comment" THEN h.comTree ELSE h.docTree IN
           ~Blank(RecoveredText(tree, c.node))
    /\ \A q \in Range(AllPaths(h.docTree)) :
           Blank(RecoveredText(h.docTree, q)) =>
               ~\E c \in Range(changes) :
                    c.type \in {"added", "deleted"} /\ c.node = q
    /\ \A q \in Range(AllPaths(h.comTree)) :
           Blank(RecoveredText(h.comTree, q)) =>
               ~\E c \in Range(changes) : c.type = "comment" /\ c.node = q
    /\ Done /\ ~h.caught => result.changes = changes

\* A returned structured list with a change, from a document holding a
\* w:ins or w:del element whose recovered text is blank.
C10_Witness ==
    /\ Done /\ CompletedCleanly /\ result.changes # <<>>
    /\ \E q \in ElementsOf(h.docTree, {TagIns, TagDel}) :
           Blank(RecoveredText(h.docTree, q))

\* C11: no returned change carries an invalid timestamp: a change whose
\* element has a date attribute that does not parse carries the time of
\* extraction, as a change whose element has none.
C11_TimestampValid ==
    Done => \A c \in Range(result.changes) :
                /\ c.timestamp # InvalidDate
                /\ c.timestamp.k \in {"clock", "date"}

\* The text a structured change recorded for its element.
RecordedText(c) == IF c.type = "deleted" THEN c.originalText ELSE c.text

\* C12: extractTextFromElement returns the trimmed concatenation, in
\* document order, of the text nodes below the element and nothing else:
\* for every element of a parsed tree, and in every change pushed for one.
C12_TextIsTextOfTextNodes ==
    /\ \A tree \in {h.docTree, h.comTree} :
           \A q \in ElementsOf(tree, {TagIns, TagDel, TagComment}) :
               RecoveredText(tree, q) = Trim(TextContent(NodeAt(tree, q)))
    /\ \A c \in Range(changes) :
           LET tree == IF c.type = "comment" THEN h.comTree ELSE h.docTree IN
           RecordedText(c) = Trim(TextContent(NodeAt(tree, c.node)))

\* Position of the first change of chs with author a.
FirstBy(chs, a) ==
    CHOOSE i \in DOMAIN chs :
        chs[i].author = a /\ \A j \in 1..(i - 1) : chs[j].author # a

\* C13: metadata.authors holds each author of the returned changes once
\* and no one else, in the order of their first changes.
C13_AuthorsAreDistinctAuthors ==
    Done =>
        LET as  == result.metadata.authors
            chs == result.changes IN
        /\ Range(as) = {chs[i].author : i \in DOMAIN chs}
        /\ \A i, j \in DOMAIN as : i # j => as[i] # as[j]
        /\ \A i, j \in DOMAIN as :
               i < j => FirstBy(chs, as[i]) < FirstBy(chs, as[j])

\* A returned list with two authors, one of them with two changes, the
\* changes of the other between them.
C13_Witness ==
    /\ Done
    /\ Len(result.metadata.authors) >= 2
    /\ \E i, j, k \in DOMAIN result.changes :
           /\ i < j /\ j < k
           /\ result.changes[i].author = result.changes[k].author
           /\ result.changes[i].author # result.changes[j].author

\* Number of maximal runs of non-whitespace characters of s.
Tokens(s) ==
    Cardinality({i \in DOMAIN s :
                    ~IsWs(s[i]) /\ (i = 1 \/ IsWs(s[i - 1]))})

\* C14: metadata.wordCount is the number of whitespace-separated tokens of
\* content, 0 for the empty content.
C14_WordCountIsTokenCount ==
    Done => result.metadata.wordCount = Tokens(result.content)

\* The literal a bracket pattern of a kind opens with.
LitOf(kind) ==
    CASE kind = "added"   -> LitAdded
      [] kind = "deleted" -> LitDeleted
      [] OTHER            -> LitModified

\* The ways the pattern of a kind matches t from position i (from 1):
\* <<a, e>> with e the position of the closing "]" and a that of " -> "
\* (0 for a pattern without one); each group holds a character at least
\* and no line end.
Feasible(t, kind, i) ==
    LET p == i + Len(LitOf(kind)) IN
    IF ~StartsAt(t, LitOf(kind), i) THEN {}
    ELSE {m \in (IF kind = "modified" THEN (p + 1)..Len(t) ELSE {0})
                 \X ((p + 1)..Len(t)) :
            /\ t[m[2]] = "]"
            /\ \A k \in p..(m[2] - 1) : ~IsLineEnd(t[k])
            /\ kind = "modified" =>
                   StartsAt(t, LitArrow, m[1]) /\ m[2] > m[1] + Len(LitArrow)}

\* The match a lazy pattern takes: the shortest first group, then the
\* shortest second.
Laziest(F) ==
    CHOOSE m \in F :
        \A n \in F : m[1] < n[1] \/ (m[1] = n[1] /\ m[2] <= n[2])

KindRank(type) ==
    CASE type = "added" -> 1 [] type = "deleted" -> 2 [] OTHER -> 3

\* C15: the fallback extractor returns one change per match of a bracket
\* pattern: the added matches by position, then the deleted, then the
\* modified, each with the groups of its match and 'Document Author'.
C15_FallbackOrderAndFields ==
    h.altRuns >= 1 =>
        LET t   == h.altText
            out == h.alt IN
        /\ \A i, j \in DOMAIN out :
               i < j =>
                   /\ KindRank(out[i].type) <= KindRank(out[j].type)
                   /\ out[i].type = out[j].type
                        => out[i].location.end <= out[j].location.start
        /\ \A c \in Range(out) :
               LET i == c.location.start + 1
                   p == i + Len(LitOf(c.type))
                   F == Feasible(t, c.type, i) IN
               /\ c.type \in {"added", "deleted", "modified"}
               /\ c.author = DocumentAuthor
               /\ F # {}
               /\ LET m == Laziest(F) IN
                  /\ c.type = "added" =>
                         /\ c.text = SubSeq(t, p, m[2] - 1)
                         /\ c.originalText = Null
                  /\ c.type = "deleted" =>
                         /\ c.text = <<>>
                         /\ c.originalText = SubSeq(t, p, m[2] - 1)
                  /\ c.type = "modified" =>
                         /\ c.originalText = SubSeq(t, p, m[1] - 1)
                         /\ c.text = SubSeq(t, m[1] + Len(LitArrow), m[2] - 1)
        /\ \A kind \in {"added", "deleted", "modified"} :
               \A i \in DOMAIN t :
                   Feasible(t, kind, i) # {} =>
                       \E c \in Range(out) :
                           /\ c.type = kind
                           /\ c.location.start < i /\ i <= c.location.end

\* A fallback list of all three kinds from a text where a deleted or
\* modified match stands ahead of an added one.
C15_Witness ==
    /\ h.altRuns >= 1
    /\ {c.type : c \in Range(h.alt)} = {"added", "deleted", "modified"}
    /\ \E i, j \in DOMAIN h.alt :
           i < j /\ h.alt[i].location.start > h.alt[j].location.start

\* 'The fee is [Modified: $100 -> $150] per month.' and its bracket
\* expression.
FeeSentence ==
    <<"T", "h", "e", " ", "f", "e", "e", " ", "i", "s", " ", "[", "M",
      "o", "d", "i", "f", "i", "e", "d", ":", " ", "$", "1", "0", "0",
      " ", "-", ">", " ", "$", "1", "5", "0", "]", " ", "p", "e", "r",
      " ", "m", "o", "n", "t", "h", ".">>
FeeBracket ==
    <<"[", "M", "o", "d", "i", "f", "i", "e", "d", ":", " ", "$", "1",
      "0", "0", " ", "-", ">", " ", "$", "1", "5", "0", "]">>

\* The bracket expression a fallback change stands for.
BracketOf(c) ==
    CASE c.type = "added"   -> LitAdded \o c.text \o <<"]">>
      [] c.type = "deleted" -> LitDeleted \o c.originalText \o <<"]">>
      [] OTHER -> LitModified \o c.originalText \o LitArrow \o c.text
                  \o <<"]">>

\* C16: the location of a fallback change is the span of its whole bracket
\* expression in the text given to the extractor; the fee sentence yields
\* one modified change from '$100' to '$150' located at its brackets.
C16_FallbackLocationIsMatchSpan ==
    h.altRuns >= 1 =>
        LET t   == h.altText
            out == h.alt IN
        /\ \A c \in Range(out) :
               /\ 0 <= c.location.start
               /\ c.location.start < c.location.end
               /\ c.location.end <= Len(t)
               /\ t[c.location.start + 1] = "["
               /\ t[c.location.end] = "]"
               /\ SubSeq(t, c.location.start + 1, c.location.end)
                    = BracketOf(c)
        /\ t = FeeSentence =>
               /\ Len(out) = 1
               /\ out[1].type = "modified"
               /\ out[1].originalText = <<"$", "1", "0", "0">>
               /\ out[1].text = <<"$", "1", "5", "0">>
               /\ SubSeq(t, out[1].location.start + 1, out[1].location.end)
                    = FeeBracket
        /\ Done /\ h.caught => result.changes = out

\* The fee sentence as the text of a file without word/document.xml,
\* returned through the fallback.
C16_Witness ==
    /\ Done /\ h.caught /\ h.cause = "nodocument"
    /\ file.doc.kind = "absent" /\ file.zip
    /\ h.altText = FeeSentence
    /\ Len(result.changes) = 1

\* C17: a change returned by parseDocument has no comment, no suggestions
\* and no resolved field.
C17_NoCollaborationFieldsAtReturn ==
    Done => \A c \in Range(result.changes) :
                /\ c.comment = Null
                /\ c.suggestions = Null
                /\ c.resolved = Null

\* A list of changes without what the clock and the id generator gave it.
Unstamped(chs) ==
    [i \in DOMAIN chs |->
        [chs[i] EXCEPT !.id = <<>>,
                       !.timestamp = IF @.k = "clock" THEN ClockTime(0)
                                     ELSE @]]

AsChanges(protos) ==
    [i \in DOMAIN protos |-> NewChange(<<>>, protos[i], 0)]

Prefixes(list) == {SubSeq(list, 1, k) : k \in 0..Len(list)}

\* The lists a call with locals l returns when it runs alone and its
\* collaborators act as l.h tells: the fallback's list over the text it
\* was given, or what the two extractors push on the entries of the file,
\* up to the push a callback raised at.
SoloLists(l) ==
    IF l.h.caught
    THEN {AsChanges(ParseAlternativeTrackChanges(l.h.altText))}
    ELSE UNION {
           LET doc == DocProtos(l.file.doc, kp[1])
               com == IF l.file.comments.kind \in {"absent", "empty"}
                      THEN <<>>
                      ELSE CommentProtos(l.file.comments, kp[2]) IN
           {AsChanges(d \o c) :
               d \in (IF l.h.faulted THEN Prefixes(doc) ELSE {doc}),
               c \in (IF l.h.faulted THEN Prefixes(com) ELSE {com})}
           : kp \in BOOLEAN \X BOOLEAN}

\* A call that has returned returned what it returns alone.
ReturnsAsAlone(l) ==
    l.pc = "done" =>
        /\ l.result.content = HtmlToText(l.file.html)
        /\ l.h.caught => l.h.altText \in {HtmlToText(l.file.html), <<>>}
        /\ Unstamped(l.result.changes) \in SoloLists(l)
        /\ l.result.metadata = Metadata(l.result.content, l.result.changes)

\* C18: of two parseDocument calls on different files interleaved at their
\* awaits, each returns the content, the changes and the metadata it
\* returns alone.
C18_ConcurrentCallsIndependent ==
    /\ ReturnsAsAlone(Locals)
    /\ h.other # NoOther => ReturnsAsAlone(h.other)

\* Two calls that were under way together and have both returned, with
\* different changes.
C18_Witness ==
    /\ h.other # NoOther
    /\ h.interleaved
    /\ pc = "done" /\ h.other.pc = "done"
    /\ result.changes # <<>> /\ h.other.result.changes # <<>>
    /\ Unstamped(result.changes) # Unstamped(h.other.result.changes)

\* The suggestions of a change as a list, none for an absent field.
SuggestionsOf(c) == IF c.suggestions = Null THEN <<>> ELSE c.suggestions

\* C19: on a loaded document the handlers of select, add-suggestion,
\* add-comment, resolve and content-change keep the list of changes as
\* parseDocument returned it, in length, order and in every field but
\* suggestions and resolved, and keep originalContent and metadata.
C19_HandlersKeepChanges ==
    pc = "loaded" =>
        LET chs == documentState.changes IN
        /\ Len(chs) = Len(result.changes)
        /\ \A i \in DOMAIN chs :
               /\ chs[i].id = result.changes[i].id
               /\ chs[i].type = result.changes[i].type
               /\ chs[i].text = result.changes[i].text
               /\ chs[i].originalText = result.changes[i].originalText
               /\ chs[i].author = result.changes[i].author
               /\ chs[i].timestamp = result.changes[i].timestamp
               /\ chs[i].location = result.changes[i].location
        /\ documentState.originalContent = result.content
        /\ documentState.metadata = result.metadata

\* A document on which every handler has acted: a change selected, one
\* with a suggestion, one resolved, a comment made, the content edited.
C19_Witness ==
    /\ pc = "loaded"
    /\ documentState.selectedChangeId # Null
    /\ \E c \in Range(documentState.changes) : SuggestionsOf(c) # <<>>
    /\ \E c \in Range(documentState.changes) : c.resolved = True
    /\ documentState.collaborationComments # <<>>
    /\ documentState.documentContent # documentState.originalContent

\* C20: every step on a loaded document leaves the suggestions of every
\* change as they are or appends one suggestion to the suggestions of the
\* changes with one id and to no other, so that the suggestions of a
\* change at one time are a prefix of those at any later time.
C20_SuggestionsAppendOnly ==
    [][pc = "loaded" =>
          LET old == documentState.changes
              new == documentState'.changes IN
          /\ DOMAIN new = DOMAIN old
          /\ \/ \A i \in DOMAIN old : new[i].suggestions = old[i].suggestions
             \/ \E changeId \in {old[i].id : i \in DOMAIN old},
                   s \in Suggestions :
                   \A i \in DOMAIN old :
                       new[i].suggestions =
                           IF old[i].id = changeId
                           THEN Append(SuggestionsOf(old[i]), s)
                           ELSE old[i].suggestions]_vars

\* A change that was given the suggestion "s" and then the suggestion "t".
C20_Witness ==
    /\ pc = "loaded"
    /\ \E c \in Range(documentState.changes) : c.suggestions = <<"s", "t">>

\* C22: a parseDocument call calls mammoth.convertToHtml once, also when
\* the fallback runs, and the fallback scans the text returned as content.
C22_ConvertedOnce ==
    Done =>
        /\ h.convCalls = 1
        /\ h.altRuns >= 1 => h.altText = result.content

\* Path q is not ahead of path r in document order (pre-order).
RECURSIVE NotAfter(_, _)
NotAfter(q, r) ==
    IF q = <<>> THEN TRUE
    ELSE IF r = <<>> THEN FALSE
    ELSE IF Head(q) # Head(r) THEN Head(q) < Head(r)
    ELSE NotAfter(Tail(q), Tail(r))

\* C23: the list of a completed structured extraction holds the insertion
\* and deletion changes in the document order of their elements, whatever
\* their kinds, and the comment changes after all of them.
C23_DocumentOrder ==
    Done /\ CompletedCleanly /\ file.doc.kind = "wellformed" =>
        \A i, j \in DOMAIN result.changes :
            i < j =>
                LET a == result.changes[i]
                    b == result.changes[j] IN
                /\ a.type = "comment" => b.type = "comment"
                /\ a.type # "comment" /\ b.type # "comment"
                       => NotAfter(a.node, b.node)

\* C24: a call of a page handler alters at most one change of the loaded
\* document (resolve marks one change, add-suggestion extends one change),
\* and a resolved change stays resolved.
C24_OneChangePerCall ==
    [][documentState # NoDocumentState /\ documentState' # NoDocumentState =>
        LET old == documentState.changes
            new == documentState'.changes IN
        /\ Len(new) = Len(old)
        /\ Cardinality({i \in DOMAIN old : new[i] # old[i]}) <= 1
        /\ \A i \in DOMAIN old :
               old[i].resolved = True => new[i].resolved = True]_vars

---------------------------------------------------------------------------
(* RedlinePanel on the page: the handlers of Index are reached through    *)
(* the cards of the panel only. A click on a control of a card is also a  *)
(* click on the card, so the handler of the control is followed by        *)
(* onChangeSelect with the id of the card.                                *)

\* What the two text areas of the panel are set to. A suggestion being a
\* string of the model, CharsOf gives its characters.
SuggestionDrafts == {"", " ", "s"}
CommentDrafts == {<<>>, <<" ">>, <<"c">>}
CharsOf(d) ==
    CASE d = ""  -> <<>>
      [] d = " " -> <<" ">>
      [] d = "s" -> <<"s">>
      [] d = "t" -> <<"t">>

\* Controls rendered for the selected card whether resolved or not.
ControlsShown_Selected(ds, change) ==
    ds.selectedChangeId = change.id

\* selectedChangeId === change.id && !change.resolved
ControlsShown(ds, change) ==
    ds.selectedChangeId = change.id /\ change.resolved # True

\* handleSuggestionSubmit: the document state and the panel state after
SuggestionSubmit(ds, u, changeId) ==
    IF Trim(CharsOf(u.newSuggestion)) = <<>> THEN <<ds, u>>
    ELSE <<SuggestionAdd(ds, changeId, u.newSuggestion),
           [u EXCEPT !.newSuggestion = "",
                     !.toasts = @ \cup {<<"Suggestion added">>}]>>

\* handleCommentSubmit, at clock value t
CommentSubmit(ds, u, changeId, t) ==
    IF Trim(u.newComment) = <<>> THEN <<ds, u>>
    ELSE <<CommentAdd(ds, changeId, u.newComment, t),
           [u EXCEPT !.newComment = <<>>,
                     !.toasts = @ \cup {<<"Comment added">>}]>>

\* The suggestions and comments added through the panel so far.
RECURSIVE Total(_)
Total(chs) ==
    IF chs = <<>> THEN 0
    ELSE (IF Head(chs).suggestions = Null THEN 0
          ELSE Len(Head(chs).suggestions)) + Total(Tail(chs))

PanelAdds == Total(documentState.changes)
             + Len(documentState.collaborationComments)

PanelFrame == UNCHANGED <<version, file, now, rnd, pc, content, changes,
                          ret, result, h>>

Mounted == pc = "loaded" /\ documentState # NoDocumentState

\* The cards clicked: those of the first change and of the changes with
\* the id the list holds twice (or of the last change).
Cards == {i \in DOMAIN documentState.changes :
              documentState.changes[i].id \in ClickIds}

\* A click on a card
ClickCard ==
    /\ Mounted
    /\ \E i \in Cards :
           documentState' =
               ChangeSelect(documentState, documentState.changes[i].id)
    /\ UNCHANGED ui
    /\ PanelFrame

\* Typing into the text area of the suggestion
TypeSuggestion ==
    /\ Mounted
    /\ \E i \in DOMAIN documentState.changes, d \in SuggestionDrafts :
        /\ ControlsShown(documentState, documentState.changes[i])
        /\ ui' = [ui EXCEPT !.newSuggestion = d]
    /\ UNCHANGED documentState
    /\ PanelFrame

\* Typing into the text area of the comment
TypeComment ==
    /\ Mounted
    /\ \E i \in DOMAIN documentState.changes, d \in CommentDrafts :
        /\ ControlsShown(documentState, documentState.changes[i])
        /\ ui' = [ui EXCEPT !.newComment = d]
    /\ UNCHANGED documentState
    /\ PanelFrame

\* A click on Add, enabled unless !newSuggestion.trim()
ClickAddSuggestion ==
    /\ Mounted
    /\ PanelAdds < MaxAdds
    /\ \E i \in DOMAIN documentState.changes :
        LET change == documentState.changes[i]
            after  == SuggestionSubmit(documentState, ui, change.id) IN
        /\ ControlsShown(documentState, change)
        /\ Trim(CharsOf(ui.newSuggestion)) # <<>>
        /\ documentState' = ChangeSelect(after[1], change.id)
        /\ ui' = after[2]
    /\ PanelFrame

\* A click on the comment button, enabled unless !newComment.trim()
ClickAddComment ==
    /\ Mounted
    /\ PanelAdds < MaxAdds
    /\ \E i \in DOMAIN documentState.changes :
        LET change == documentState.changes[i]
            after  == CommentSubmit(documentState, ui, change.id, now) IN
        /\ ControlsShown(documentState, change)
        /\ Trim(ui.newComment) # <<>>
        /\ documentState' = ChangeSelect(after[1], change.id)
        /\ ui' = after[2]
    /\ PanelFrame

\* A click on Mark as Resolved
ClickResolve ==
    /\ Mounted
    /\ \E i \in DOMAIN documentState.changes :
        LET change == documentState.changes[i] IN
        /\ ControlsShown(documentState, change)
        /\ documentState' =
               ChangeSelect(ChangeResolve(documentState, change.id),
                            change.id)
    /\ UNCHANGED ui
    /\ PanelFrame

\* New Document: setDocumentState(null) unmounts the panel.
NewDocument ==
    /\ Mounted
    /\ documentState' = NoDocumentState
    /\ ui' = [ui EXCEPT !.newSuggestion = "", !.newComment = <<>>]
    /\ PanelFrame

PanelNext ==
    \/ ClickCard
    \/ TypeSuggestion
    \/ TypeComment
    \/ ClickAddSuggestion
    \/ ClickAddComment
    \/ ClickResolve
    \/ NewDocument
    \/ Tick

PanelSpec == UIInit /\ [][PanelNext]_vars

\* The comments of the second list the first does not hold.
AddedComments(old, new) ==
    {new[k] : k \in (Len(old) + 1)..Len(new)}

\* C26: a panel operation alters a change or adds a comment to it only
\* when the change is the selected one and not resolved, and with a draft
\* that is not blank; a resolved change is not altered and gets no comment.
C26_OnlySelectedUnresolved ==
    [][documentState # NoDocumentState /\ documentState' # NoDocumentState =>
        LET old   == documentState.changes
            new   == documentState'.changes
            added == AddedComments(documentState.collaborationComments,
                                   documentState'.collaborationComments) IN
        /\ Len(new) = Len(old)
        /\ \A i \in DOMAIN old :
            /\ new[i] # old[i] =>
                /\ documentState.selectedChangeId = old[i].id
                /\ old[i].resolved # True
            /\ new[i].suggestions # old[i].suggestions =>
                   Trim(CharsOf(ui.newSuggestion)) # <<>>
            /\ old[i].resolved = True =>
                /\ new[i] = old[i]
                /\ \A c \in added : c.changeId # old[i].id
        /\ \A c \in added :
            /\ Trim(ui.newComment) # <<>>
            /\ documentState.selectedChangeId = c.changeId
            /\ \E i \in DOMAIN old :
                   old[i].id = c.changeId /\ old[i].resolved # True]_vars

\* The selected change is resolved and carries a suggestion and a
\* comment, and the suggestion draft is not blank.
C26_Witness ==
    /\ documentState # NoDocumentState
    /\ ui.newSuggestion = "s"
    /\ \E i \in DOMAIN documentState.changes :
        LET c == documentState.changes[i] IN
        /\ c.resolved = True
        /\ c.suggestions # Null
        /\ documentState.selectedChangeId = c.id
        /\ \E k \in DOMAIN documentState.collaborationComments :
               documentState.collaborationComments[k].changeId = c.id

---------------------------------------------------------------------------
(* DocumentUpload on the page: a file dropped on the component is passed  *)
(* to handleFileUpload of Index, which calls parseDocument. The steps of  *)
(* the parser are those of Spec; nothing else runs between the end of     *)
(* handleFileUpload and the rest of onDrop.                               *)

\* The drops (calls of onDrop) the model follows.
MaxDrops == 2

DotDocx == <<".", "d", "o", "c", "x">>
NameDocx == <<"a">> \o DotDocx
NameDoc == <<"a", ".", "d", "o", "c">>
NameUpper == <<"a", ".", "D", "O", "C", "X">>
NameBackup == NameDocx \o <<".", "b", "a", "k">>
FileNames == {NameDocx, NameDoc, NameUpper, NameBackup}

\* The contents of the files dropped.
UploadFiles == {FileStructured, FileNoDocument, FileValid}

\* A test for the suffix anywhere in the string.
EndsWith_Includes(s, suffix) ==
    \E i \in 1..(Len(s) - Len(suffix) + 1) :
        SubSeq(s, i, i + Len(suffix) - 1) = suffix

\* s.endsWith(suffix)
EndsWith(s, suffix) ==
    /\ Len(s) >= Len(suffix)
    /\ SubSeq(s, Len(s) - Len(suffix) + 1, Len(s)) = suffix

\* The message of the Error parseDocument throws.
FailedToParse ==
    "Failed to parse document. Please ensure it's a valid .docx file."

\* handleFileUpload is an async function whose catch block ends without
\* throwing: the promise it returns is not rejected.
UploadRejects == FALSE

UploadInit ==
    /\ version \in {"xml2js", "dom"}
    /\ file \in UploadFiles
    /\ now = 0
    /\ rnd = 0
    /\ pc = "idle"
    /\ content = <<>>
    /\ changes = <<>>
    /\ ret = <<>>
    /\ result = NoResult
    /\ h = NoHistory
    /\ documentState = NoDocumentState
    /\ ui = NoUi

\* onDrop up to its await, handleFileUpload up to its await, and the start
\* of parseDocument. The dropzone is rendered while uploadedFile is null
\* and no document is loaded, and takes no drop while isUploading.
OnDrop ==
    /\ ui.at = "idle"
    /\ documentState = NoDocumentState
    /\ ui.uploadedFile = Null
    /\ ~ui.isUploading
    /\ ui.drops < MaxDrops
    /\ \E name \in FileNames \cup {Null} :
        LET dropped == [ui EXCEPT !.dropped = name, !.drops = @ + 1] IN
        IF name = Null
        THEN /\ ui' = dropped
             /\ UNCHANGED <<pc, content, changes, ret, result, h>>
        ELSE IF ~EndsWith(name, DotDocx)
        THEN /\ ui' = [dropped EXCEPT
                         !.toasts = @ \cup {<<"Please upload a .docx file">>}]
             /\ UNCHANGED <<pc, content, changes, ret, result, h>>
        ELSE /\ ui' = [dropped EXCEPT !.uploadedFile = name,
                                      !.calls = @ + 1,
                                      !.isUploading = TRUE,
                                      !.at = "parsing"]
             /\ pc' = "convert"
             /\ content' = <<>>
             /\ changes' = <<>>
             /\ ret' = <<>>
             /\ result' = NoResult
             /\ h' = NoHistory
    /\ UNCHANGED <<version, file, now, rnd, documentState>>

\* handleFileUpload from the end of parseDocument on
FileUploadSettles ==
    /\ ui.at = "parsing"
    /\ pc \in {"done", "raised"}
    /\ IF pc = "done"
       THEN /\ documentState' = Loaded(result)
            /\ ui' = [ui EXCEPT
                        !.toasts = @ \cup {<<"Document loaded with ",
                                             Len(result.changes),
                                             " changes detected">>},
                        !.isUploading = FALSE,
                        !.at = IF UploadRejects THEN "rejected"
                               ELSE "fulfilled"]
       ELSE /\ UNCHANGED documentState
            /\ ui' = [ui EXCEPT
                        !.toasts = @ \cup {<<"Failed to process document: ",
                                             FailedToParse>>},
                        !.isUploading = FALSE,
                        !.at = IF UploadRejects THEN "rejected"
                               ELSE "fulfilled"]
    /\ UNCHANGED <<version, file, now, rnd, pc, content, changes, ret,
                   result, h>>

\* onDrop after its await
OnDropResumes ==
    /\ ui.at \in {"fulfilled", "rejected"}
    /\ ui' = IF ui.at = "fulfilled"
             THEN [ui EXCEPT
                     !.toasts = @ \cup {<<"Document uploaded successfully!">>},
                     !.at = "idle"]
             ELSE [ui EXCEPT
                     !.toasts = @ \cup {<<"Failed to upload document">>},
                     !.uploadedFile = Null,
                     !.at = "idle"]
    /\ UNCHANGED <<version, file, now, rnd, pc, content, changes, ret,
                   result, h, documentState>>

\* removeFile, behind a button disabled while isUploading
RemoveFile ==
    /\ ui.at = "idle"
    /\ documentState = NoDocumentState
    /\ ui.uploadedFile # Null
    /\ ~ui.isUploading
    /\ ui' = [ui EXCEPT !.uploadedFile = Null]
    /\ UNCHANGED <<version, file, now, rnd, pc, content, changes, ret,
                   result, h, documentState>>

UploadNext ==
    \/ OnDrop
    \/ ConvertToHtml
    \/ LoadArchive
    \/ ReadDocumentXml
    \/ ParseDocumentXml
    \/ ReadCommentsXml
    \/ ParseCommentsXml
    \/ FallbackAttempt
    \/ Assemble
    \/ FileUploadSettles
    \/ OnDropResumes
    \/ RemoveFile
    \/ Tick

UploadSpec == UploadInit /\ [][UploadNext]_vars

\* The last n characters of s, s itself when it has no more.
LastChars(s, n) ==
    IF Len(s) <= n THEN s ELSE SubSeq(s, Len(s) - n + 1, Len(s))

\* C21: a drop of a file whose name does not end in ".docx" calls neither
\* onFileUpload nor the parser, and leaves uploadedFile null.
C21_ExtensionChecked ==
    [][/\ ui'.drops # ui.drops
       /\ ui'.dropped # Null
       /\ LastChars(ui'.dropped, 5) # <<".", "d", "o", "c", "x">>
       => /\ ui'.calls = ui.calls
          /\ ui'.uploadedFile = Null
          /\ ui'.at = "idle"
          /\ UNCHANGED <<pc, h, documentState>>]_vars

\* A file named a.docx.bak was dropped and nothing was uploaded.
C21_Witness ==
    /\ ui.drops > 0
    /\ ui.dropped = NameBackup
    /\ ui.calls = 0
    /\ ui.uploadedFile = Null
    /\ pc = "idle"

\* C25: after an upload whose parseDocument raised, uploadedFile is null
\* again, no success was announced, no document is loaded and isUploading
\* is false.
C25_FailedUploadTakesFailureBranch ==
    ui.at = "idle" /\ pc = "raised" =>
        /\ ui.uploadedFile = Null
        /\ <<"Document uploaded successfully!">> \notin ui.toasts
        /\ documentState = NoDocumentState
        /\ ~ui.isUploading

=============================================================================
